---------------------------- MODULE Spec2Model ----------------------------
(***************************************************************************)
(* DataSetReader (parser/src/dataset.rs): the token iterator over a DICOM  *)
(* data set.  One action per path through DataSetReader::next; every       *)
(* action is one whole call of next().                                     *)
(*                                                                         *)
(* The byte source is a sequence of cells.  A cell standing at a header    *)
(* position holds one encoded element header or item header; a value of    *)
(* length n occupies n data cells.  parser.bytes_read() counts cells.  The *)
(* source is revealed as the parser reads it: `input` is what the parser   *)
(* has consumed so far and `eof` says the source was found to end there.   *)
(***************************************************************************)
EXTENDS Integers, Sequences, FiniteSets, TLC

\* ------------------------------------------------------------------ bounds
\* longest source, in cells
MaxInput == 4
\* largest explicit length an encoded header declares, in cells
MaxLen == 3
\* calls of next() followed after the reader has fused
MaxFusedCalls == 2

\* ------------------------------------------------------- data model (core)
\* Length(0xFFFFFFFF): the undefined length, the 32-bit pattern of all ones
\* (written as the two's complement integer with that pattern)
UndefinedLength == -1

\* Length::get(): None (<<>>) for the undefined length, Some(len) otherwise
LengthGet(len) == IF len = UndefinedLength THEN <<>> ELSE <<len>>

\* Tag(0xFFFE, 0xE000), Tag(0xFFFE, 0xE00D), Tag(0xFFFE, 0xE0DD), and one
\* tag standing for every tag outside group FFFE
TagItem == "FFFE,E000"
TagItemEnd == "FFFE,E00D"
TagSequenceEnd == "FFFE,E0DD"
TagData == "0018,6011"

ExplicitLens == 0..MaxLen
AllLens == ExplicitLens \cup {UndefinedLength}

\* the encoded units a source may hold at a header position
Alphabet ==
    [k : {"E"}, len : ExplicitLens]
      \cup [k : {"SQ", "IT"}, len : AllLens]
      \cup [k : {"ITD", "SQD", "D"}, len : {0}]

DataCell == [k |-> "D", len |-> 0]

RECURSIVE DataCells(_)
DataCells(n) == IF n = 0 THEN <<>> ELSE <<DataCell>> \o DataCells(n - 1)

VARIABLES
    input,                      \* source: the cells consumed so far
    eof,                        \* source: found to end after `input`
    bytes_read,                 \* parser.bytes_read()
    in_sequence,                \* DataSetReader fields
    delimiter_check_pending,
    seq_delimiters,
    hard_break,
    last_header,                \* Option: <<>> or <<header>>
    ret,                        \* what the last call of next() returned
    parsed,                     \* what the parser answered in the last call
    out,                        \* every Some(_) returned so far, in order
    closed,                     \* every entry popped off seq_delimiters
    fused_calls,                \* number of calls made with hard_break set
    depth,                      \* LazyDataSetReader fields (in_sequence and
    lazy_in_sequence,           \* hard_break carry the reader's name here)
    lazy_hard_break,
    sought,                     \* what get_position answered in the last call
    marker,                     \* a DicomElementMarker
    stream                      \* what get_data_stream returned for it

vars == <<input, eof, bytes_read, in_sequence, delimiter_check_pending,
          seq_delimiters, hard_break, last_header, ret, parsed, out, closed,
          fused_calls, depth, lazy_in_sequence, lazy_hard_break, sought,
          marker, stream>>

\* the fields of DataSetReader, of LazyDataSetReader, and the marker at hand
readerVars == <<in_sequence, delimiter_check_pending, seq_delimiters,
                hard_break, last_header, closed>>
lazyVars == <<depth, lazy_in_sequence, lazy_hard_break, sought>>
markerVars == <<marker, stream>>

\* ------------------------------------------------------------ Parse (§6)
Ok(v) == [ok |-> TRUE, val |-> v, err |-> ""]
Fail(e) == [ok |-> FALSE, val |-> [k |-> "none"], err |-> e]

\* decode_header on the cell at the current position
decode_header(c) ==
    CASE c.k = "E"   -> Ok([tag |-> TagData, vr |-> "US", len |-> c.len])
      [] c.k = "SQ"  -> Ok([tag |-> TagData, vr |-> "SQ", len |-> c.len])
      [] c.k = "IT"  -> Ok([tag |-> TagItem, vr |-> "UN", len |-> c.len])
      [] c.k = "ITD" -> Ok([tag |-> TagItemEnd, vr |-> "UN", len |-> c.len])
      [] c.k = "SQD" -> Ok([tag |-> TagSequenceEnd, vr |-> "UN", len |-> c.len])
      [] OTHER       -> Fail("DecoderError")

\* decode_item_header on the cell at the current position
decode_item_header(c) ==
    CASE c.k = "IT"  -> Ok([k |-> "Item", len |-> c.len])
      [] c.k = "ITD" -> Ok([k |-> "ItemDelimiter", len |-> 0])
      [] c.k = "SQD" -> Ok([k |-> "SequenceDelimiter", len |-> 0])
      [] OTHER       -> Fail("DecoderError")

\* the value read_value decodes for a header: opaque, determined by the header
PrimitiveValueOf(header) == [vr |-> header.vr, len |-> header.len]

\* What one parser call can do to the source: the answer, the cells it
\* consumed, whether it ran into the end of the source.
Room == MaxInput - Len(input)

\* the cells a header read can find at the current position
NextCells == IF Room > 0 THEN Alphabet ELSE {}

\* a read that finds the end of the source, or fails otherwise
ReadFailures(op) ==
    {[op |-> op, res |-> Fail("UnexpectedEof"), cells |-> <<>>, eof |-> TRUE],
     [op |-> op, res |-> Fail("IoError"), cells |-> <<>>, eof |-> FALSE]}

DecodeHeaderOutcomes ==
    {[op |-> "decode_header", res |-> decode_header(c), cells |-> <<c>>,
      eof |-> FALSE] : c \in NextCells}
      \cup ReadFailures("decode_header")

DecodeItemHeaderOutcomes ==
    {[op |-> "decode_item_header", res |-> decode_item_header(c), cells |-> <<c>>,
      eof |-> FALSE] : c \in NextCells}
      \cup ReadFailures("decode_item_header")

ReadValueOutcomes(header) ==
    IF header.len = UndefinedLength
    THEN {[op |-> "read_value", res |-> Fail("UnresolvedValueLength"),
           cells |-> <<>>, eof |-> FALSE]}
    ELSE {[op |-> "read_value", res |-> Ok(PrimitiveValueOf(header)),
           cells |-> DataCells(header.len), eof |-> FALSE]
             : x \in IF header.len <= Room THEN {0} ELSE {}}
           \cup {[op |-> "read_value", res |-> Fail("UnexpectedEof"),
                  cells |-> DataCells(n), eof |-> TRUE]
                    : n \in {m \in 0..Room : m < header.len}}
           \cup {[op |-> "read_value", res |-> Fail("IoError"),
                  cells |-> <<>>, eof |-> FALSE]}

\* the parser call's effect on the source and on the byte counter
Consume(o) ==
    /\ input' = input \o o.cells
    /\ eof' = o.eof
    /\ bytes_read' = IF o.res.ok THEN bytes_read + Len(o.cells) ELSE bytes_read
    /\ parsed' = [op |-> o.op, res |-> o.res]

NoParse ==
    /\ UNCHANGED <<input, eof, bytes_read>>
    /\ parsed' = [op |-> "none", res |-> Ok([k |-> "none"])]

\* ----------------------------------------------------------------- tokens
ElementHeader(header) == [t |-> "ElementHeader", header |-> header]
SequenceStart(tag, len) == [t |-> "SequenceStart", tag |-> tag, len |-> len]
SequenceEnd == [t |-> "SequenceEnd"]
ItemStart(len) == [t |-> "ItemStart", len |-> len]
ItemEnd == [t |-> "ItemEnd"]
PrimitiveValue(v) == [t |-> "PrimitiveValue", value |-> v]
Err(e) == [t |-> "Err", e |-> e]
InconsistentSequenceEnd(eos, pos) ==
    [t |-> "Err", e |-> "InconsistentSequenceEnd", eos |-> eos, pos |-> pos]

SeqToken(typ, len, base_offset) ==
    [typ |-> typ, len |-> len, base_offset |-> base_offset]

Top(stack) == stack[Len(stack)]
Pop(stack) == IF stack = <<>> THEN <<>> ELSE SubSeq(stack, 1, Len(stack) - 1)

\* what next() hands back, and the record kept of it
Return(kind, branch, res) ==
    /\ ret' = [kind |-> kind, branch |-> branch, res |-> res]
    /\ out' = IF kind = "Some"
              THEN Append(out, [res |-> res, pos |-> bytes_read',
                                consumed |-> Len(input')])
              ELSE out
    /\ fused_calls' = IF branch = "fused" THEN fused_calls + 1 ELSE fused_calls
    /\ UNCHANGED <<lazyVars, markerVars>>

\* the entry a pop removes, with the position it was removed at
Closing(how) ==
    closed' = IF seq_delimiters = <<>> THEN closed
              ELSE Append(closed, [entry |-> Top(seq_delimiters),
                                   pos |-> bytes_read', how |-> how])

\* no position asked for, no marker at hand, get_data_stream not called
NoPosition == [op |-> "none", res |-> Ok([k |-> "none"])]
NoMarker == [t |-> "none"]
NoStream == [op |-> "none", res |-> Ok([k |-> "none"]), calls |-> <<>>]

\* DataSetReader::new and LazyDataSetReader::new on a source not yet read
Init ==
    /\ input = <<>>
    /\ eof = FALSE
    /\ bytes_read = 0
    /\ in_sequence = FALSE
    /\ delimiter_check_pending = FALSE
    /\ seq_delimiters = <<>>
    /\ hard_break = FALSE
    /\ last_header = <<>>
    /\ ret = [kind |-> "Init", branch |-> "none", res |-> [t |-> "none"]]
    /\ parsed = [op |-> "none", res |-> Ok([k |-> "none"])]
    /\ out = <<>>
    /\ closed = <<>>
    /\ fused_calls = 0
    /\ depth = 0
    /\ lazy_in_sequence = FALSE
    /\ lazy_hard_break = FALSE
    /\ sought = NoPosition
    /\ marker = NoMarker
    /\ stream = NoStream

\* ---------------------------------------------------- update_seq_delimiters
\* update_seq_delimiters with the length taken as a number without Length::get
update_seq_delimiters_NoGet ==
    LET unchanged(kind, res, pending) ==
            [kind |-> kind, res |-> res, in_sequence |-> in_sequence,
             seq_delimiters |-> seq_delimiters,
             delimiter_check_pending |-> pending]
        none == unchanged("None", [t |-> "none"], FALSE)
    IN  IF seq_delimiters = <<>> THEN none
        ELSE LET sd == Top(seq_delimiters)
                 eos == sd.base_offset + sd.len
             IN  IF eos = bytes_read
                 THEN [kind |-> "Token",
                       res |-> IF sd.typ = "Sequence" THEN SequenceEnd ELSE ItemEnd,
                       in_sequence |-> (sd.typ = "Item"),
                       seq_delimiters |-> Pop(seq_delimiters),
                       delimiter_check_pending |-> delimiter_check_pending]
                 ELSE IF eos < bytes_read
                 THEN unchanged("Err", InconsistentSequenceEnd(eos, bytes_read),
                                delimiter_check_pending)
                 ELSE none

\* update_seq_delimiters clearing delimiter_check_pending when it closes a scope
update_seq_delimiters_ClearOnClose ==
    LET unchanged(kind, res, pending) ==
            [kind |-> kind, res |-> res, in_sequence |-> in_sequence,
             seq_delimiters |-> seq_delimiters,
             delimiter_check_pending |-> pending]
        none == unchanged("None", [t |-> "none"], FALSE)
    IN  IF seq_delimiters = <<>> THEN none
        ELSE LET sd == Top(seq_delimiters) IN
             IF LengthGet(sd.len) = <<>> THEN none
             ELSE LET eos == sd.base_offset + sd.len IN
                  IF eos = bytes_read
                  THEN [kind |-> "Token",
                        res |-> IF sd.typ = "Sequence" THEN SequenceEnd ELSE ItemEnd,
                        in_sequence |-> (sd.typ = "Item"),
                        seq_delimiters |-> Pop(seq_delimiters),
                        delimiter_check_pending |-> FALSE]
                  ELSE IF eos < bytes_read
                  THEN unchanged("Err", InconsistentSequenceEnd(eos, bytes_read),
                                 delimiter_check_pending)
                  ELSE none

\* update_seq_delimiters with the arguments of InconsistentSequenceEnd swapped
update_seq_delimiters_SwappedErr ==
    LET unchanged(kind, res, pending) ==
            [kind |-> kind, res |-> res, in_sequence |-> in_sequence,
             seq_delimiters |-> seq_delimiters,
             delimiter_check_pending |-> pending]
        none == unchanged("None", [t |-> "none"], FALSE)
    IN  IF seq_delimiters = <<>> THEN none
        ELSE LET sd == Top(seq_delimiters) IN
             IF LengthGet(sd.len) = <<>> THEN none
             ELSE LET eos == sd.base_offset + sd.len IN
                  IF eos = bytes_read
                  THEN [kind |-> "Token",
                        res |-> IF sd.typ = "Sequence" THEN SequenceEnd ELSE ItemEnd,
                        in_sequence |-> (sd.typ = "Item"),
                        seq_delimiters |-> Pop(seq_delimiters),
                        delimiter_check_pending |-> delimiter_check_pending]
                  ELSE IF eos < bytes_read
                  THEN unchanged("Err", InconsistentSequenceEnd(bytes_read, eos),
                                 delimiter_check_pending)
                  ELSE none

\* The result and the fields the call leaves behind.
update_seq_delimiters ==
    LET unchanged(kind, res, pending) ==
            [kind |-> kind, res |-> res, in_sequence |-> in_sequence,
             seq_delimiters |-> seq_delimiters,
             delimiter_check_pending |-> pending]
        none == unchanged("None", [t |-> "none"], FALSE)
    IN  IF seq_delimiters = <<>> THEN none
        ELSE LET sd == Top(seq_delimiters) IN
             IF LengthGet(sd.len) = <<>> THEN none
             ELSE LET eos == sd.base_offset + sd.len IN
                  IF eos = bytes_read
                  THEN [kind |-> "Token",
                        res |-> IF sd.typ = "Sequence" THEN SequenceEnd ELSE ItemEnd,
                        in_sequence |-> (sd.typ = "Item"),
                        seq_delimiters |-> Pop(seq_delimiters),
                        delimiter_check_pending |-> delimiter_check_pending]
                  ELSE IF eos < bytes_read
                  THEN unchanged("Err", InconsistentSequenceEnd(eos, bytes_read),
                                 delimiter_check_pending)
                  ELSE none

\* -------------------------------------------------------- DataSetReader::next
\* hard_break: return None
NextFused ==
    /\ hard_break
    /\ fused_calls < MaxFusedCalls
    /\ NoParse
    /\ UNCHANGED <<in_sequence, delimiter_check_pending, seq_delimiters,
                   hard_break, last_header, closed>>
    /\ Return("None", "fused", [t |-> "none"])

\* the delimiter check fails
NextDelimiterErr ==
    /\ ~hard_break
    /\ delimiter_check_pending
    /\ update_seq_delimiters.kind = "Err"
    /\ hard_break' = TRUE
    /\ NoParse
    /\ UNCHANGED <<in_sequence, delimiter_check_pending, seq_delimiters,
                   last_header, closed>>
    /\ Return("Some", "delimiter", update_seq_delimiters.res)

\* the delimiter check closes the scope on top of the stack
NextDelimiterToken ==
    /\ ~hard_break
    /\ delimiter_check_pending
    /\ update_seq_delimiters.kind = "Token"
    /\ in_sequence' = update_seq_delimiters.in_sequence
    /\ seq_delimiters' = update_seq_delimiters.seq_delimiters
    /\ delimiter_check_pending' = update_seq_delimiters.delimiter_check_pending
    /\ NoParse
    /\ Closing("length")
    /\ UNCHANGED <<hard_break, last_header>>
    /\ Return("Some", "delimiter", update_seq_delimiters.res)

\* no check is pending, or the check yields Ok(None) and clears the flag
PastDelimiterCheck ==
    /\ ~hard_break
    /\ delimiter_check_pending => update_seq_delimiters.kind = "None"

\* in_sequence: Item { len }
NextItemStart ==
    /\ PastDelimiterCheck
    /\ in_sequence
    /\ \E o \in DecodeItemHeaderOutcomes :
        /\ o.res.ok
        /\ o.res.val.k = "Item"
        /\ Consume(o)
        /\ in_sequence' = FALSE
        /\ seq_delimiters' = Append(seq_delimiters,
                                    SeqToken("Item", o.res.val.len, bytes_read'))
        /\ delimiter_check_pending' = (o.res.val.len = 0)
        /\ UNCHANGED <<hard_break, last_header, closed>>
        /\ Return("Some", "item", ItemStart(o.res.val.len))

\* in_sequence: ItemDelimiter
NextItemDelimiter ==
    /\ PastDelimiterCheck
    /\ in_sequence
    /\ \E o \in DecodeItemHeaderOutcomes :
        /\ o.res.ok
        /\ o.res.val.k = "ItemDelimiter"
        /\ Consume(o)
        /\ seq_delimiters' = Pop(seq_delimiters)
        /\ in_sequence' = TRUE
        /\ delimiter_check_pending' = FALSE
        /\ Closing("delimiter")
        /\ UNCHANGED <<hard_break, last_header>>
        /\ Return("Some", "item", ItemEnd)

\* in_sequence: SequenceDelimiter
NextSequenceDelimiter ==
    /\ PastDelimiterCheck
    /\ in_sequence
    /\ \E o \in DecodeItemHeaderOutcomes :
        /\ o.res.ok
        /\ o.res.val.k = "SequenceDelimiter"
        /\ Consume(o)
        /\ seq_delimiters' = Pop(seq_delimiters)
        /\ in_sequence' = FALSE
        /\ delimiter_check_pending' = FALSE
        /\ Closing("delimiter")
        /\ UNCHANGED <<hard_break, last_header>>
        /\ Return("Some", "item", SequenceEnd)

\* NextItemHeaderErr with the end of the stream taken as the end of the data set
NextItemHeaderErr_EofAsNone ==
    /\ PastDelimiterCheck
    /\ in_sequence
    /\ \E o \in DecodeItemHeaderOutcomes :
        /\ ~o.res.ok
        /\ Consume(o)
        /\ hard_break' = TRUE
        /\ delimiter_check_pending' = FALSE
        /\ UNCHANGED <<in_sequence, seq_delimiters, last_header, closed>>
        /\ IF o.res.err = "UnexpectedEof"
           THEN Return("None", "item", [t |-> "none"])
           ELSE Return("Some", "item", Err(o.res.err))

\* in_sequence: decode_item_header fails
NextItemHeaderErr ==
    /\ PastDelimiterCheck
    /\ in_sequence
    /\ \E o \in DecodeItemHeaderOutcomes :
        /\ ~o.res.ok
        /\ Consume(o)
        /\ hard_break' = TRUE
        /\ delimiter_check_pending' = FALSE
        /\ UNCHANGED <<in_sequence, seq_delimiters, last_header, closed>>
        /\ Return("Some", "item", Err(o.res.err))

\* NextValue without the assignment delimiter_check_pending = true
NextValue_NoCheck ==
    /\ PastDelimiterCheck
    /\ ~in_sequence
    /\ last_header # <<>>
    /\ \E o \in ReadValueOutcomes(last_header[1]) :
        /\ o.res.ok
        /\ Consume(o)
        /\ last_header' = <<>>
        /\ delimiter_check_pending' = FALSE
        /\ UNCHANGED <<in_sequence, seq_delimiters, hard_break, closed>>
        /\ Return("Some", "value", PrimitiveValue(o.res.val))

\* NextValue without the assignment last_header = None
NextValue_KeepHeader ==
    /\ PastDelimiterCheck
    /\ ~in_sequence
    /\ last_header # <<>>
    /\ \E o \in ReadValueOutcomes(last_header[1]) :
        /\ o.res.ok
        /\ Consume(o)
        /\ delimiter_check_pending' = TRUE
        /\ UNCHANGED <<in_sequence, seq_delimiters, hard_break, last_header, closed>>
        /\ Return("Some", "value", PrimitiveValue(o.res.val))

\* last_header is set: the value is read
NextValue ==
    /\ PastDelimiterCheck
    /\ ~in_sequence
    /\ last_header # <<>>
    /\ \E o \in ReadValueOutcomes(last_header[1]) :
        /\ o.res.ok
        /\ Consume(o)
        /\ last_header' = <<>>
        /\ delimiter_check_pending' = TRUE
        /\ UNCHANGED <<in_sequence, seq_delimiters, hard_break, closed>>
        /\ Return("Some", "value", PrimitiveValue(o.res.val))

\* NextValueErr without the assignment hard_break = true
NextValueErr_NoFuse ==
    /\ PastDelimiterCheck
    /\ ~in_sequence
    /\ last_header # <<>>
    /\ \E o \in ReadValueOutcomes(last_header[1]) :
        /\ ~o.res.ok
        /\ Consume(o)
        /\ last_header' = <<>>
        /\ delimiter_check_pending' = FALSE
        /\ UNCHANGED <<in_sequence, seq_delimiters, hard_break, closed>>
        /\ Return("Some", "value", Err(o.res.err))

\* NextValueErr without the assignment last_header = None
NextValueErr_KeepHeader ==
    /\ PastDelimiterCheck
    /\ ~in_sequence
    /\ last_header # <<>>
    /\ \E o \in ReadValueOutcomes(last_header[1]) :
        /\ ~o.res.ok
        /\ Consume(o)
        /\ hard_break' = TRUE
        /\ delimiter_check_pending' = FALSE
        /\ UNCHANGED <<in_sequence, seq_delimiters, last_header, closed>>
        /\ Return("Some", "value", Err(o.res.err))

\* last_header is set: read_value fails
NextValueErr ==
    /\ PastDelimiterCheck
    /\ ~in_sequence
    /\ last_header # <<>>
    /\ \E o \in ReadValueOutcomes(last_header[1]) :
        /\ ~o.res.ok
        /\ Consume(o)
        /\ hard_break' = TRUE
        /\ last_header' = <<>>
        /\ delimiter_check_pending' = FALSE
        /\ UNCHANGED <<in_sequence, seq_delimiters, closed>>
        /\ Return("Some", "value", Err(o.res.err))

HeaderExpected ==
    /\ PastDelimiterCheck
    /\ ~in_sequence
    /\ last_header = <<>>

\* NextSequenceStart without the check for a sequence of length 0
NextSequenceStart_NoEmptyCheck ==
    /\ HeaderExpected
    /\ \E o \in DecodeHeaderOutcomes :
        /\ o.res.ok
        /\ o.res.val.vr = "SQ"
        /\ Consume(o)
        /\ in_sequence' = TRUE
        /\ seq_delimiters' = Append(seq_delimiters,
                                    SeqToken("Sequence", o.res.val.len, bytes_read'))
        /\ delimiter_check_pending' = FALSE
        /\ UNCHANGED <<hard_break, last_header, closed>>
        /\ Return("Some", "header", SequenceStart(o.res.val.tag, o.res.val.len))

\* header expected: a header with VR SQ
NextSequenceStart ==
    /\ HeaderExpected
    /\ \E o \in DecodeHeaderOutcomes :
        /\ o.res.ok
        /\ o.res.val.vr = "SQ"
        /\ Consume(o)
        /\ in_sequence' = TRUE
        /\ seq_delimiters' = Append(seq_delimiters,
                                    SeqToken("Sequence", o.res.val.len, bytes_read'))
        /\ delimiter_check_pending' = (o.res.val.len = 0)
        /\ UNCHANGED <<hard_break, last_header, closed>>
        /\ Return("Some", "header", SequenceStart(o.res.val.tag, o.res.val.len))

\* NextItemEndTag popping the stack as the ItemDelimiter arm does
NextItemEndTag_Pops ==
    /\ HeaderExpected
    /\ \E o \in DecodeHeaderOutcomes :
        /\ o.res.ok
        /\ o.res.val.vr # "SQ"
        /\ o.res.val.tag = TagItemEnd
        /\ Consume(o)
        /\ in_sequence' = TRUE
        /\ seq_delimiters' = Pop(seq_delimiters)
        /\ delimiter_check_pending' = FALSE
        /\ Closing("delimiter")
        /\ UNCHANGED <<hard_break, last_header>>
        /\ Return("Some", "header", ItemEnd)

\* header expected: a header with tag (FFFE,E00D)
NextItemEndTag ==
    /\ HeaderExpected
    /\ \E o \in DecodeHeaderOutcomes :
        /\ o.res.ok
        /\ o.res.val.vr # "SQ"
        /\ o.res.val.tag = TagItemEnd
        /\ Consume(o)
        /\ in_sequence' = TRUE
        /\ delimiter_check_pending' = FALSE
        /\ UNCHANGED <<seq_delimiters, hard_break, last_header, closed>>
        /\ Return("Some", "header", ItemEnd)

\* header expected: any other header
NextElementHeader ==
    /\ HeaderExpected
    /\ \E o \in DecodeHeaderOutcomes :
        /\ o.res.ok
        /\ o.res.val.vr # "SQ"
        /\ o.res.val.tag # TagItemEnd
        /\ Consume(o)
        /\ last_header' = <<o.res.val>>
        /\ delimiter_check_pending' = FALSE
        /\ UNCHANGED <<in_sequence, seq_delimiters, hard_break, closed>>
        /\ Return("Some", "header", ElementHeader(o.res.val))

\* NextEndOfStream without the arm for UnexpectedEof: the error is returned
NextEndOfStream_AsErr ==
    /\ HeaderExpected
    /\ \E o \in DecodeHeaderOutcomes :
        /\ ~o.res.ok
        /\ o.res.err = "UnexpectedEof"
        /\ Consume(o)
        /\ hard_break' = TRUE
        /\ delimiter_check_pending' = FALSE
        /\ UNCHANGED <<in_sequence, seq_delimiters, last_header, closed>>
        /\ Return("Some", "header", Err(o.res.err))

\* header expected: decode_header fails with an UnexpectedEof I/O error
NextEndOfStream ==
    /\ HeaderExpected
    /\ \E o \in DecodeHeaderOutcomes :
        /\ ~o.res.ok
        /\ o.res.err = "UnexpectedEof"
        /\ Consume(o)
        /\ hard_break' = TRUE
        /\ delimiter_check_pending' = FALSE
        /\ UNCHANGED <<in_sequence, seq_delimiters, last_header, closed>>
        /\ Return("None", "header", [t |-> "none"])

\* header expected: decode_header fails with any other error
NextHeaderErr ==
    /\ HeaderExpected
    /\ \E o \in DecodeHeaderOutcomes :
        /\ ~o.res.ok
        /\ o.res.err # "UnexpectedEof"
        /\ Consume(o)
        /\ hard_break' = TRUE
        /\ delimiter_check_pending' = FALSE
        /\ UNCHANGED <<in_sequence, seq_delimiters, last_header, closed>>
        /\ Return("Some", "header", Err(o.res.err))

Next ==
    \/ NextFused
    \/ NextDelimiterErr
    \/ NextDelimiterToken
    \/ NextItemStart
    \/ NextItemDelimiter
    \/ NextSequenceDelimiter
    \/ NextItemHeaderErr
    \/ NextValue
    \/ NextValueErr
    \/ NextSequenceStart
    \/ NextItemEndTag
    \/ NextElementHeader
    \/ NextEndOfStream
    \/ NextHeaderErr

Spec == Init /\ [][Next]_vars

\* the caller keeps calling next()
LiveSpec == Spec /\ WF_vars(Next)

\* ------------------------------------------------------- LazyDataSetReader
\* Tag(0x0008, 0x0005), Specific Character Set
TagCharacterSet == "0008,0005"

\* longest source the lazy reader is run on, in cells
MaxLazyInput == 4

\* The lazy reader is run on sources that may also hold a Specific Character
\* Set element, with its own VR or, malformed, with VR SQ.  It reads no value
\* and no length, so that few lengths are told apart.
LazyAlphabet ==
    [k : {"E"}, len : {0, MaxLen}]
      \cup [k : {"SQ", "IT"}, len : {0, UndefinedLength}]
      \cup [k : {"ITD", "SQD", "D", "CS", "CSQ"}, len : {0}]

lazy_decode_header(c) ==
    CASE c.k = "CS"  -> Ok([tag |-> TagCharacterSet, vr |-> "CS", len |-> c.len])
      [] c.k = "CSQ" -> Ok([tag |-> TagCharacterSet, vr |-> "SQ", len |-> c.len])
      [] OTHER       -> decode_header(c)

LazyNextCells == IF Len(input) < MaxLazyInput THEN LazyAlphabet ELSE {}

LazyDecodeHeaderOutcomes ==
    {[op |-> "decode_header", res |-> lazy_decode_header(c), cells |-> <<c>>,
      eof |-> FALSE] : c \in LazyNextCells}
      \cup ReadFailures("decode_header")

LazyDecodeItemHeaderOutcomes ==
    {[op |-> "decode_item_header", res |-> decode_item_header(c), cells |-> <<c>>,
      eof |-> FALSE] : c \in LazyNextCells}
      \cup ReadFailures("decode_item_header")

\* From<SequenceItemHeader> for DataElementHeader
ItemHeaderAsElement(header) ==
    [tag |-> CASE header.k = "Item" -> TagItem
               [] header.k = "ItemDelimiter" -> TagItemEnd
               [] OTHER -> TagSequenceEnd,
     vr |-> "UN", len |-> header.len]

DicomElementMarker(header, pos) == [t |-> "Marker", header |-> header, pos |-> pos]

\* get_position: source.seek(SeekFrom::Current(0)), which can fail
GetPositionOutcomes(pos) ==
    {[op |-> "get_position", res |-> Ok(pos)],
     [op |-> "get_position", res |-> Fail("IoError")]}

NoSeek == sought' = NoPosition

\* what LazyDataSetReader::next hands back, and the record kept of it
LazyReturn(kind, branch, res) ==
    /\ ret' = [kind |-> kind, branch |-> branch, res |-> res]
    /\ out' = IF kind = "Some"
              THEN Append(out, [res |-> res, pos |-> bytes_read',
                                consumed |-> Len(input')])
              ELSE out
    /\ fused_calls' = IF branch = "fused" THEN fused_calls + 1 ELSE fused_calls
    /\ UNCHANGED <<readerVars, markerVars>>

\* CreateMarker without the assignment hard_break = true
CreateMarker_NoFuse(header, branch) ==
    \E p \in GetPositionOutcomes(Len(input')) :
        /\ sought' = p
        /\ lazy_hard_break' = lazy_hard_break
        /\ IF p.res.ok
           THEN LazyReturn("Some", branch, DicomElementMarker(header, p.res.val))
           ELSE LazyReturn("Some", branch, Err(p.res.err))

\* create_element_marker and create_item_marker: the marker, or the error of
\* get_position with hard_break set
CreateMarker(header, branch) ==
    \E p \in GetPositionOutcomes(Len(input')) :
        /\ sought' = p
        /\ IF p.res.ok
           THEN /\ lazy_hard_break' = lazy_hard_break
                /\ LazyReturn("Some", branch, DicomElementMarker(header, p.res.val))
           ELSE /\ lazy_hard_break' = TRUE
                /\ LazyReturn("Some", branch, Err(p.res.err))

\* hard_break: return None
LazyFused ==
    /\ lazy_hard_break
    /\ fused_calls < MaxFusedCalls
    /\ NoParse
    /\ NoSeek
    /\ UNCHANGED <<depth, lazy_in_sequence, lazy_hard_break>>
    /\ LazyReturn("None", "fused", [t |-> "none"])

\* in_sequence: Item { .. }
LazyItemStart ==
    /\ ~lazy_hard_break
    /\ lazy_in_sequence
    /\ \E o \in LazyDecodeItemHeaderOutcomes :
        /\ o.res.ok
        /\ o.res.val.k = "Item"
        /\ Consume(o)
        /\ lazy_in_sequence' = FALSE
        /\ UNCHANGED depth
        /\ CreateMarker(ItemHeaderAsElement(o.res.val), "item")

\* in_sequence: ItemDelimiter
LazyItemDelimiter ==
    /\ ~lazy_hard_break
    /\ lazy_in_sequence
    /\ \E o \in LazyDecodeItemHeaderOutcomes :
        /\ o.res.ok
        /\ o.res.val.k = "ItemDelimiter"
        /\ Consume(o)
        /\ lazy_in_sequence' = TRUE
        /\ UNCHANGED depth
        /\ CreateMarker(ItemHeaderAsElement(o.res.val), "item")

\* in_sequence: SequenceDelimiter.  depth is a u32: below 0 stands for the
\* decrement of 0, which wraps or panics with the build.
LazySequenceDelimiter ==
    /\ ~lazy_hard_break
    /\ lazy_in_sequence
    /\ \E o \in LazyDecodeItemHeaderOutcomes :
        /\ o.res.ok
        /\ o.res.val.k = "SequenceDelimiter"
        /\ Consume(o)
        /\ depth' = depth - 1
        /\ lazy_in_sequence' = FALSE
        /\ CreateMarker(ItemHeaderAsElement(o.res.val), "item")

\* in_sequence: decode_item_header fails
LazyItemHeaderErr ==
    /\ ~lazy_hard_break
    /\ lazy_in_sequence
    /\ \E o \in LazyDecodeItemHeaderOutcomes :
        /\ ~o.res.ok
        /\ Consume(o)
        /\ NoSeek
        /\ lazy_hard_break' = TRUE
        /\ UNCHANGED <<depth, lazy_in_sequence>>
        /\ LazyReturn("Some", "item", Err(o.res.err))

\* header expected: a header with tag (0008,0005)
LazyCharacterSet ==
    /\ ~lazy_hard_break
    /\ ~lazy_in_sequence
    /\ \E o \in LazyDecodeHeaderOutcomes :
        /\ o.res.ok
        /\ o.res.val.tag = TagCharacterSet
        /\ Consume(o)
        /\ UNCHANGED <<depth, lazy_in_sequence>>
        /\ CreateMarker(o.res.val, "header")

\* LazyHeader without the increment of depth
LazyHeader_NoIncrement ==
    /\ ~lazy_hard_break
    /\ ~lazy_in_sequence
    /\ \E o \in LazyDecodeHeaderOutcomes :
        /\ o.res.ok
        /\ o.res.val.tag # TagCharacterSet
        /\ Consume(o)
        /\ lazy_in_sequence' = (o.res.val.vr = "SQ")
        /\ UNCHANGED depth
        /\ CreateMarker(o.res.val, "header")

\* header expected: any other header
LazyHeader ==
    /\ ~lazy_hard_break
    /\ ~lazy_in_sequence
    /\ \E o \in LazyDecodeHeaderOutcomes :
        /\ o.res.ok
        /\ o.res.val.tag # TagCharacterSet
        /\ Consume(o)
        /\ lazy_in_sequence' = (o.res.val.vr = "SQ")
        /\ depth' = IF o.res.val.vr = "SQ" THEN depth + 1 ELSE depth
        /\ CreateMarker(o.res.val, "header")

\* LazyHeaderErr ending the run with None at the end of the source, as
\* DataSetReader does
LazyHeaderErr_EofAsNone ==
    /\ ~lazy_hard_break
    /\ ~lazy_in_sequence
    /\ \E o \in LazyDecodeHeaderOutcomes :
        /\ ~o.res.ok
        /\ Consume(o)
        /\ NoSeek
        /\ lazy_hard_break' = TRUE
        /\ UNCHANGED <<depth, lazy_in_sequence>>
        /\ IF o.res.err = "UnexpectedEof"
           THEN LazyReturn("None", "header", [t |-> "none"])
           ELSE LazyReturn("Some", "header", Err(o.res.err))

\* header expected: decode_header fails
LazyHeaderErr ==
    /\ ~lazy_hard_break
    /\ ~lazy_in_sequence
    /\ \E o \in LazyDecodeHeaderOutcomes :
        /\ ~o.res.ok
        /\ Consume(o)
        /\ NoSeek
        /\ lazy_hard_break' = TRUE
        /\ UNCHANGED <<depth, lazy_in_sequence>>
        /\ LazyReturn("Some", "header", Err(o.res.err))

LazyNext ==
    \/ LazyFused
    \/ LazyItemStart
    \/ LazyItemDelimiter
    \/ LazySequenceDelimiter
    \/ LazyItemHeaderErr
    \/ LazyCharacterSet
    \/ LazyHeader
    \/ LazyHeaderErr

LazySpec == Init /\ [][LazyNext]_vars

\* ------------------------------------------- DicomElementMarker::get_data_stream
\* the positions a marker is given
MaxPos == 4

MarkerHeaders ==
    [tag : {TagData, TagCharacterSet, TagItem, TagItemEnd, TagSequenceEnd},
     vr : {"US", "SQ", "UN"}, len : AllLens]

Markers == {DicomElementMarker(h, pos) : h \in MarkerHeaders, pos \in 0..MaxPos}

\* SeekInterval::new_at(source, range): seeks the source to the start of the
\* range, which can fail, and keeps the range
NewAtOutcomes(begin, end) ==
    LET call == [op |-> "new_at", begin |-> begin, end |-> end] IN
    {[op |-> "get_data_stream",
      res |-> Ok([k |-> "SeekInterval", begin |-> begin, end |-> end]),
      calls |-> <<call>>],
     [op |-> "get_data_stream", res |-> Fail("IoError"), calls |-> <<call>>]}

\* get_data_stream taking an undefined length for no bytes at all
get_data_stream_UndefinedAsEmpty(m) ==
    IF LengthGet(m.header.len) = <<>>
    THEN NewAtOutcomes(m.pos, 0)
    ELSE LET len == LengthGet(m.header.len)[1]
         IN  NewAtOutcomes(m.pos, len)

\* get_data_stream(&self, source): the results it can return, each with the
\* calls made on the source
get_data_stream(m) ==
    IF LengthGet(m.header.len) = <<>>
    THEN {[op |-> "get_data_stream", res |-> Fail("UnresolvedValueLength"),
           calls |-> <<>>]}
    ELSE LET len == LengthGet(m.header.len)[1]
         IN  NewAtOutcomes(m.pos, len)

MarkerInit ==
    /\ input = <<>>
    /\ eof = FALSE
    /\ bytes_read = 0
    /\ in_sequence = FALSE
    /\ delimiter_check_pending = FALSE
    /\ seq_delimiters = <<>>
    /\ hard_break = FALSE
    /\ last_header = <<>>
    /\ ret = [kind |-> "Init", branch |-> "none", res |-> [t |-> "none"]]
    /\ parsed = [op |-> "none", res |-> Ok([k |-> "none"])]
    /\ out = <<>>
    /\ closed = <<>>
    /\ fused_calls = 0
    /\ depth = 0
    /\ lazy_in_sequence = FALSE
    /\ lazy_hard_break = FALSE
    /\ sought = NoPosition
    /\ marker \in Markers
    /\ stream = NoStream

\* one call of get_data_stream on the marker
GetDataStream ==
    /\ stream = NoStream
    /\ stream' \in get_data_stream(marker)
    /\ UNCHANGED <<input, eof, bytes_read, ret, parsed, out, fused_calls,
                   readerVars, lazyVars, marker>>

MarkerNext == GetDataStream

MarkerSpec == MarkerInit /\ [][MarkerNext]_vars

\* ------------------------------------------------------------- properties
\* the results returned so far, without the positions
Results == [i \in 1..Len(out) |-> out[i].res]

IsErr(r) == r.t = "Err"

ErrCount == Cardinality({i \in 1..Len(out) : IsErr(out[i].res)})

\* C1: the reader is fused.  A call that follows a call that returned
\* Some(Err(_)) or None returns None, and over the whole run at most one Err
\* is returned.
FusedStep ==
    (ret.kind = "None" \/ (ret.kind = "Some" /\ IsErr(ret.res)))
        => ret'.kind = "None"

C1_Fused == [](ErrCount <= 1) /\ [][FusedStep]_vars

\* a call made after an Err was returned has returned None
C1_Witness == ret.branch = "fused" /\ ErrCount = 1

\* ---- the data set a source encodes, read as a tree, and its traversal ----
\* A data set is a run of elements.  A primitive element is a header cell
\* followed by as many data cells as its length says; a sequence of explicit
\* length n is a header cell followed by n cells of items; an item of explicit
\* length m is an item header cell followed by a data set of m cells.
\* `open` says the run reaches the end of the source as revealed so far, so
\* that its last element may still be incomplete.
AllData(s) == \A i \in 1..Len(s) : s[i].k = "D"

Malformed == [ok |-> FALSE, toks |-> <<>>]

Then(toks, r) == [ok |-> r.ok, toks |-> toks \o r.toks]

Both(r1, toks, r2) == [ok |-> r1.ok /\ r2.ok, toks |-> r1.toks \o toks \o r2.toks]

RECURSIVE TraverseDataSet(_, _), TraverseItems(_, _)
TraverseDataSet(s, open) ==
    IF s = <<>> THEN [ok |-> TRUE, toks |-> <<>>]
    ELSE LET c == Head(s)
             body == Tail(s)
             rest == SubSeq(body, c.len + 1, Len(body))
             header == [tag |-> TagData, vr |-> IF c.k = "SQ" THEN "SQ" ELSE "US",
                        len |-> c.len]
         IN  IF c.k = "E"
             THEN IF Len(body) >= c.len
                  THEN IF AllData(SubSeq(body, 1, c.len))
                       THEN Then(<<ElementHeader(header),
                                   PrimitiveValue(PrimitiveValueOf(header))>>,
                                 TraverseDataSet(rest, open))
                       ELSE Malformed
                  ELSE [ok |-> open /\ AllData(body), toks |-> <<ElementHeader(header)>>]
             ELSE IF c.k = "SQ" /\ c.len # UndefinedLength
             THEN IF Len(body) >= c.len
                  THEN Then(<<SequenceStart(header.tag, c.len)>>,
                            Both(TraverseItems(SubSeq(body, 1, c.len), FALSE),
                                 <<SequenceEnd>>,
                                 TraverseDataSet(rest, open)))
                  ELSE IF open
                  THEN Then(<<SequenceStart(header.tag, c.len)>>,
                            TraverseItems(body, TRUE))
                  ELSE Malformed
             ELSE Malformed

TraverseItems(s, open) ==
    IF s = <<>> THEN [ok |-> TRUE, toks |-> <<>>]
    ELSE LET c == Head(s)
             body == Tail(s)
             rest == SubSeq(body, c.len + 1, Len(body))
         IN  IF c.k = "IT" /\ c.len # UndefinedLength
             THEN IF Len(body) >= c.len
                  THEN Then(<<ItemStart(c.len)>>,
                            Both(TraverseDataSet(SubSeq(body, 1, c.len), FALSE),
                                 <<ItemEnd>>,
                                 TraverseItems(rest, open)))
                  ELSE IF open
                  THEN Then(<<ItemStart(c.len)>>, TraverseDataSet(body, TRUE))
                  ELSE Malformed
             ELSE Malformed

\* the source is a well-formed data set with explicit lengths only
WellFormedExplicit(s) == TraverseDataSet(s, FALSE).ok

\* the source as revealed so far begins a well-formed data set with explicit
\* lengths only
BeginsWellFormedExplicit(s) == TraverseDataSet(s, TRUE).ok

\* the run is over and the whole source has been seen
Exhausted == hard_break /\ eof

\* the source never failed with an I/O error other than the end of the stream
SourceFailed == \E i \in 1..Len(out) : IsErr(out[i].res) /\ out[i].res.e = "IoError"

\* C2: on a well-formed data set whose sequences and items all have explicit
\* lengths, the reader returns exactly the document-order traversal of the tree
\* and no Err: once the run is over the results are the traversal, and no Err
\* is returned while the source read so far still begins such a data set.
C2_DocumentOrder ==
    /\ (Exhausted /\ WellFormedExplicit(input))
          => Results = TraverseDataSet(input, FALSE).toks
    /\ (~eof /\ ~SourceFailed /\ BeginsWellFormedExplicit(input)) => ErrCount = 0

\* a nested data set has been traversed to its end: a sequence, closed, with an
\* item holding a primitive element
C2_Witness ==
    /\ Exhausted /\ WellFormedExplicit(input)
    /\ Len(input) = MaxInput
    /\ \E i \in 1..Len(out) : out[i].res.t = "PrimitiveValue"
    /\ \E i \in 1..Len(out) : out[i].res.t = "ItemEnd"
    /\ Results[Len(out)].t = "SequenceEnd"

\* ---- nesting of the tokens returned ----
\* the scopes left open by a run of tokens, innermost last, or <<"unbalanced">>
\* when an end token does not close the innermost open scope
RECURSIVE OpenScopes(_, _)
OpenScopes(toks, open) ==
    IF toks = <<>> THEN open
    ELSE LET t == Head(toks).t IN
         IF t = "SequenceStart" THEN OpenScopes(Tail(toks), Append(open, "Sequence"))
         ELSE IF t = "ItemStart" THEN OpenScopes(Tail(toks), Append(open, "Item"))
         ELSE IF t \in {"SequenceEnd", "ItemEnd"}
         THEN IF open # <<>> /\ Top(open) = (IF t = "SequenceEnd" THEN "Sequence" ELSE "Item")
              THEN OpenScopes(Tail(toks), Pop(open))
              ELSE <<"unbalanced">>
         ELSE OpenScopes(Tail(toks), open)

Balanced(toks) == OpenScopes(toks, <<>>) = <<>>

\* C3: balanced nesting.  A run that has ended with None and returned no Err
\* has returned a balanced, correctly nested run of tokens: every SequenceStart
\* and ItemStart is closed by its end token, innermost first.
C3_BalancedNesting == (hard_break /\ ErrCount = 0) => Balanced(Results)

\* C4: end of stream.  An UnexpectedEof from decode_header makes next() return
\* None; any other error of decode_header, and every error of
\* decode_item_header or read_value (UnexpectedEof included), is returned as
\* Some(Err(_)).
C4_EndOfStream ==
    ~parsed.res.ok =>
        IF parsed.op = "decode_header" /\ parsed.res.err = "UnexpectedEof"
        THEN ret.kind = "None" /\ ErrCount = 0
        ELSE ret.kind = "Some" /\ ret.res = Err(parsed.res.err)

\* the source ended inside a sequence, where an item header was expected, and
\* the end was returned as an Err
C4_Witness ==
    /\ parsed.op = "decode_item_header"
    /\ parsed.res.err = "UnexpectedEof"
    /\ ret.res = Err("UnexpectedEof")

\* C5: header before value.  Every PrimitiveValue returned comes right after an
\* ElementHeader and is the value read with that header; what is returned
\* right after an ElementHeader is a PrimitiveValue or an Err.
HeaderBeforeValue ==
    \A i \in 1..Len(out) :
        /\ out[i].res.t = "PrimitiveValue" =>
              /\ i > 1
              /\ out[i - 1].res.t = "ElementHeader"
              /\ out[i].res.value = PrimitiveValueOf(out[i - 1].res.header)
        /\ (out[i].res.t = "ElementHeader" /\ i < Len(out)) =>
              out[i + 1].res.t \in {"PrimitiveValue", "Err"}

ValueAfterHeader ==
    (ret.kind = "Some" /\ ret.res.t = "ElementHeader") =>
        (ret'.kind = "Some" /\ ret'.res.t \in {"PrimitiveValue", "Err"})

C5_HeaderBeforeValue == []HeaderBeforeValue /\ [][ValueAfterHeader]_vars

\* a value of one cell or more has been returned after its header
C5_Witness ==
    /\ ret.kind = "Some" /\ ret.res.t = "PrimitiveValue"
    /\ ret.res.value.len > 0
    /\ out[Len(out) - 1].res.t = "ElementHeader"

\* C6: a scope of undefined length is never closed by position.  While the top
\* of the stack has undefined length, a pending delimiter check returns
\* Ok(None), changes neither in_sequence nor the stack and clears
\* delimiter_check_pending, whatever the position; and every entry of
\* undefined length that was popped was popped on a decoded delimiter.
TopUndefined == seq_delimiters # <<>> /\ Top(seq_delimiters).len = UndefinedLength

C6_UndefinedNotByPosition ==
    /\ (~hard_break /\ delimiter_check_pending /\ TopUndefined) =>
          update_seq_delimiters =
              [kind |-> "None", res |-> [t |-> "none"], in_sequence |-> in_sequence,
               seq_delimiters |-> seq_delimiters, delimiter_check_pending |-> FALSE]
    /\ \A i \in 1..Len(closed) :
          closed[i].entry.len = UndefinedLength => closed[i].how = "delimiter"

\* a check is pending on an item of undefined length, after a value was read
\* in it
C6_Witness ==
    /\ ~hard_break /\ delimiter_check_pending /\ TopUndefined
    /\ bytes_read > Top(seq_delimiters).base_offset

\* the primitive elements a source consists of, or -1 when it is anything
\* else than a run of complete primitive elements
RECURSIVE CountElements(_)
CountElements(s) ==
    IF s = <<>> THEN 0
    ELSE LET c == Head(s)
             body == Tail(s)
         IN  IF c.k = "E" /\ Len(body) >= c.len /\ AllData(SubSeq(body, 1, c.len))
             THEN LET n == CountElements(SubSeq(body, c.len + 1, Len(body)))
                  IN  IF n < 0 THEN -1 ELSE n + 1
             ELSE -1

ScopeCells(s) == {i \in 1..Len(s) : s[i].k \in {"SQ", "IT"}}

ClosedByLength(i) ==
    /\ closed[i].how = "length"
    /\ closed[i].pos = closed[i].entry.base_offset + closed[i].entry.len

\* C7: explicit-length closure.  When the source is a well-formed data set with
\* explicit lengths only and ends with its last element, the run ends with
\* bytes_read equal to the length of the source, every scope closed, each at
\* base_offset + len, and None returned by the call after the last token.
C7_ExplicitClosure ==
    /\ (Exhausted /\ WellFormedExplicit(input)) =>
          /\ bytes_read = Len(input)
          /\ seq_delimiters = <<>>
          /\ Len(closed) = Cardinality(ScopeCells(input))
          /\ ret.kind = "None"
          /\ ErrCount = 0
    /\ BeginsWellFormedExplicit(input) =>
          \A i \in 1..Len(closed) : ClosedByLength(i)

\* a source of the longest kind with an item in a sequence has been read to
\* its end and both scopes were closed where the source ends
C7_Witness ==
    /\ Exhausted /\ WellFormedExplicit(input)
    /\ Len(input) = MaxInput
    /\ Len(closed) >= 2
    /\ closed[Len(closed)].pos = Len(input)
    /\ closed[Len(closed) - 1].pos = Len(input)

\* C8: round-trip boundary.  On a source of n complete primitive elements and
\* nothing else, the reader returns 2 * n tokens before None, ElementHeader and
\* PrimitiveValue in turn; while the source holds nothing else the stack is
\* empty and in_sequence is false, and no Err is returned before the end.
OnlyElementCells(s) == \A i \in 1..Len(s) : s[i].k \in {"E", "D"}

C8_RoundTrip ==
    /\ (Exhausted /\ CountElements(input) >= 0) =>
          /\ Len(out) = 2 * CountElements(input)
          /\ \A i \in 1..Len(out) :
                out[i].res.t = (IF i % 2 = 1 THEN "ElementHeader" ELSE "PrimitiveValue")
          /\ ret.kind = "None"
    /\ OnlyElementCells(input) => (seq_delimiters = <<>> /\ ~in_sequence)
    /\ (OnlyElementCells(input) /\ BeginsWellFormedExplicit(input)
            /\ ~eof /\ ~SourceFailed) => ErrCount = 0

\* two complete primitive elements were read and the source ended
C8_Witness ==
    /\ Exhausted /\ CountElements(input) = 2
    /\ Len(out) = 4
    /\ ret.kind = "None"

OvershotTop ==
    /\ seq_delimiters # <<>>
    /\ Top(seq_delimiters).len # UndefinedLength
    /\ Top(seq_delimiters).base_offset + Top(seq_delimiters).len < bytes_read

OvershotSequence(i) ==
    /\ seq_delimiters[i].typ = "Sequence"
    /\ seq_delimiters[i].len # UndefinedLength
    /\ seq_delimiters[i].base_offset + seq_delimiters[i].len < bytes_read

ValueReturned == ~hard_break /\ ret.kind = "Some" /\ ret.res.t = "PrimitiveValue"

\* the value returned last is that of an element with a tag outside group FFFE
OrdinaryElement == out[Len(out) - 1].res.header.tag = TagData

\* C9 as stated: once a PrimitiveValue has been returned with an open sequence
\* whose explicit length is smaller than the bytes consumed by its content, the
\* next call returns Err(InconsistentSequenceEnd(eos, pos)) with eos the end of
\* an overshot scope and pos = bytes_read.
C9_AnySequenceOvershot ==
    [][(ValueReturned /\ OrdinaryElement /\ \E i \in 1..Len(seq_delimiters) : OvershotSequence(i)) =>
          \E i \in 1..Len(seq_delimiters) :
              /\ seq_delimiters[i].len # UndefinedLength
              /\ ret'.res = InconsistentSequenceEnd(
                     seq_delimiters[i].base_offset + seq_delimiters[i].len, bytes_read)]_vars

\* C9, amended: once a PrimitiveValue has been returned and the innermost open
\* scope (the top of the delimiter stack, sequence or item) has an explicit
\* length with base_offset + len < bytes_read, the next call returns
\* Err(InconsistentSequenceEnd(base_offset + len, bytes_read)) and consumes
\* nothing, and the call after that returns None.
InconsistentStep ==
    (ValueReturned /\ OvershotTop) =>
        /\ ret'.kind = "Some"
        /\ ret'.res = InconsistentSequenceEnd(
               Top(seq_delimiters).base_offset + Top(seq_delimiters).len, bytes_read)
        /\ hard_break'
        /\ input' = input

AfterInconsistent ==
    (ret.kind = "Some" /\ IsErr(ret.res) /\ ret.res.e = "InconsistentSequenceEnd") =>
        ret'.kind = "None"

C9_InnermostOvershot == [][InconsistentStep /\ AfterInconsistent]_vars

\* the value of an element that runs over the end of its item was returned,
\* then the Err, with the end of the item and the position reached
C9_Witness ==
    /\ ret.kind = "Some" /\ IsErr(ret.res) /\ ret.res.e = "InconsistentSequenceEnd"
    /\ ret.res.eos < ret.res.pos
    /\ out[Len(out) - 1].res.t = "PrimitiveValue"
    /\ Top(seq_delimiters).typ = "Item"

\* C10: empty explicit scopes close at once.  The call after the one that
\* returned SequenceStart with length 0 returns SequenceEnd, the call after
\* the one that returned ItemStart with length 0 returns ItemEnd, and neither
\* consumes anything from the source.
EmptyScopeStep ==
    (ret.kind = "Some" /\ ret.res.t \in {"SequenceStart", "ItemStart"} /\ ret.res.len = 0) =>
        /\ ret'.kind = "Some"
        /\ ret'.res = (IF ret.res.t = "SequenceStart" THEN SequenceEnd ELSE ItemEnd)
        /\ input' = input
        /\ bytes_read' = bytes_read

C10_EmptyScopes == [][EmptyScopeStep]_vars

\* an empty item was opened and closed with nothing consumed in between
C10_Witness ==
    /\ Len(out) >= 2
    /\ out[Len(out) - 1].res = ItemStart(0)
    /\ out[Len(out)].res = ItemEnd
    /\ out[Len(out)].consumed = out[Len(out) - 1].consumed

\* ---- termination ----
\* What a run can still do: the cells the source may still hold weigh more
\* than all the steps that consume nothing, which are bounded by the scopes
\* left to close and the value left to read.
Rank ==
    (MaxInput - Len(input)) * (MaxInput + 2)
      + Len(seq_delimiters)
      + (IF last_header # <<>> THEN 1 ELSE 0)

ProgressStep ==
    (ret'.kind = "Some" /\ ~IsErr(ret'.res)) => (Rank' < Rank /\ Rank' >= 0)

\* C11: termination.  On a finite source, with every header and item header
\* decoded taking at least one byte, the caller who keeps calling next() gets
\* None in the end: every call that returns a token uses up a byte of the
\* source, a scope to close or the value to read, so that steps that consume
\* nothing cannot go on forever.
C11_Termination == [][ProgressStep]_vars /\ <>(ret.kind = "None")

\* a run with a value of length 0 and a scope closed by its length, two steps
\* that consume nothing, has come to None
C11_Witness ==
    /\ ret.kind = "None"
    /\ \E i \in 1..Len(out) :
          out[i].res.t = "PrimitiveValue" /\ out[i].res.value.len = 0
    /\ \E i \in 1..Len(closed) : closed[i].how = "length"

\* ---- DicomElementMarker and LazyDataSetReader ----
\* C12: get_data_stream returns InvalidValueReadError::UnresolvedValueLength,
\* with no call made on the source, when the length of the marker's header is
\* undefined, and for no marker whose length is defined.
C12_UnresolvedValueLength ==
    stream # NoStream =>
        /\ marker.header.len = UndefinedLength =>
              (stream.res = Fail("UnresolvedValueLength") /\ stream.calls = <<>>)
        /\ marker.header.len # UndefinedLength =>
              (stream.res.ok \/ stream.res.err # "UnresolvedValueLength")

\* get_data_stream was called on a marker of undefined length
C12_Witness ==
    /\ marker # NoMarker
    /\ marker.header.len = UndefinedLength
    /\ stream.res = Fail("UnresolvedValueLength")

\* C13: the lazy reader is fused on the first error.  After an Err, whether of
\* decode_item_header, of decode_header or of get_position, hard_break is set,
\* and a call made after an Err or a None returns None, decodes nothing and
\* asks the source for no position.
LazyFusedStep ==
    (ret.kind = "None" \/ (ret.kind = "Some" /\ IsErr(ret.res))) =>
        /\ ret'.kind = "None"
        /\ parsed'.op = "none"
        /\ sought'.op = "none"
        /\ input' = input

C13_LazyFused ==
    /\ []((ret.kind = "Some" /\ IsErr(ret.res)) => lazy_hard_break)
    /\ [](ErrCount <= 1)
    /\ [][LazyFusedStep]_vars

\* the header of a sequence was decoded, the position query for its marker
\* failed, and the call after that returned None
C13_Witness ==
    /\ ret.branch = "fused"
    /\ out[Len(out)].res = Err("IoError")
    /\ out[Len(out)].consumed = Len(input)
    /\ Len(input) = 1
    /\ input[1].k = "SQ"

\* ---- the delimiter stack ----
Starts == {i \in 1..Len(out) : out[i].res.t \in {"SequenceStart", "ItemStart"}}
Ends == {i \in 1..Len(out) : out[i].res.t \in {"SequenceEnd", "ItemEnd"}}

\* SequenceStart and ItemStart tokens returned so far, less the SequenceEnd
\* and ItemEnd tokens returned so far
NestingDepth == Cardinality(Starts) - Cardinality(Ends)

\* C14: in every reachable state the height of seq_delimiters is the number of
\* SequenceStart and ItemStart tokens returned so far minus the number of
\* SequenceEnd and ItemEnd tokens returned so far.
C14_StackHeightIsDepth == Len(seq_delimiters) = NestingDepth

\* the innermost open scope has an explicit length and ends where the parser is
AtEndOfTop ==
    /\ seq_delimiters # <<>>
    /\ Top(seq_delimiters).len # UndefinedLength
    /\ Top(seq_delimiters).base_offset + Top(seq_delimiters).len = bytes_read

\* the call before decoded a SequenceDelimiter in the in-sequence branch
AfterSequenceDelimiter == ret.branch = "item" /\ ret.res = SequenceEnd

\* the token that closes the scope on top of the stack
ClosingToken == IF Top(seq_delimiters).typ = "Sequence" THEN SequenceEnd ELSE ItemEnd

\* C15: a call of next() that starts where the innermost open scope, of
\* explicit length, ends returns that scope's closing token and decodes no
\* header and no item header, however the position was reached.  Stated for
\* the position the claim names: the call before decoded the SequenceDelimiter
\* of a nested sequence.
CloseBeforeNextElement ==
    (/\ ~hard_break
     /\ last_header = <<>>
     /\ AfterSequenceDelimiter
     /\ AtEndOfTop) =>
        /\ ret' = [kind |-> "Some", branch |-> "delimiter", res |-> ClosingToken]
        /\ parsed'.op = "none"

C15_CloseBeforeNextElement == [][CloseBeforeNextElement]_vars

\* C16: cascading closure.  A call in which update_seq_delimiters returns a
\* closing token leaves delimiter_check_pending set; the flag is cleared only
\* by a call whose check yields no token; and a call that starts with the flag
\* set where the innermost scope, of explicit length, ends returns its closing
\* token, pops it and decodes nothing.  So k scopes ending at one offset are
\* closed innermost first by k consecutive calls.
PendingKept ==
    (ret'.branch = "delimiter" /\ ~IsErr(ret'.res)) => delimiter_check_pending'

PendingCleared ==
    (delimiter_check_pending /\ ~delimiter_check_pending') =>
        /\ update_seq_delimiters.kind = "None"
        /\ ret'.branch # "delimiter"

CascadeStep ==
    (~hard_break /\ delimiter_check_pending /\ AtEndOfTop) =>
        /\ ret' = [kind |-> "Some", branch |-> "delimiter", res |-> ClosingToken]
        /\ seq_delimiters' = Pop(seq_delimiters)
        /\ parsed'.op = "none"
        /\ input' = input

PopMatchesDelimiter ==
    (ret'.branch = "item" /\ ret'.res \in {SequenceEnd, ItemEnd}) =>
        /\ seq_delimiters # <<>>
        /\ Top(seq_delimiters).typ
              = (IF ret'.res = SequenceEnd THEN "Sequence" ELSE "Item")

C17_PopsMatchScopeType == [][PopMatchesDelimiter]_vars

\* C18: read from the bottom, seq_delimiters alternates Sequence, Item,
\* Sequence, Item, ...
C18_StackAlternates ==
    \A i \in 1..Len(seq_delimiters) :
        seq_delimiters[i].typ = (IF i % 2 = 1 THEN "Sequence" ELSE "Item")

\* C19: while last_header is set, in_sequence is false, and the next call
\* reads the value of that header: it returns the PrimitiveValue read with it
\* or the Err of read_value, and decodes no header and no item header.
ValueAwaited ==
    last_header # <<>> =>
        /\ ~in_sequence
        /\ Len(last_header) = 1

ValueIsNext ==
    last_header # <<>> =>
        /\ parsed'.op = "read_value"
        /\ ret'.kind = "Some"
        /\ ret'.branch = "value"
        /\ IF parsed'.res.ok
           THEN ret'.res = PrimitiveValue(PrimitiveValueOf(last_header[1]))
           ELSE ret'.res = Err(parsed'.res.err)

C19_ValueFollowsHeader == []ValueAwaited /\ [][ValueIsNext]_vars

\* inside an item of a sequence, an element header was returned and then both
\* a value and an Err of read_value have followed a header
C19_Witness ==
    /\ ret.branch = "value"
    /\ IsErr(ret.res)
    /\ Len(seq_delimiters) = 2
    /\ \E i \in 1..Len(out) : out[i].res.t = "PrimitiveValue"

\* C20: while in_sequence is true, last_header is None and the delimiter stack
\* is not empty.
C20_InSequenceHasScope ==
    in_sequence => (last_header = <<>> /\ seq_delimiters # <<>>)

\* ---- the Item-End tag at header position, depth, the marker's interval ----
\* decode_header has returned a header with tag (FFFE,E00D) and a VR other
\* than SQ
ItemEndTagDecoded ==
    /\ parsed'.op = "decode_header"
    /\ parsed'.res.ok
    /\ parsed'.res.val.tag = TagItemEnd
    /\ parsed'.res.val.vr # "SQ"

\* delimiter_check_pending as it stands when the header branch is entered:
\* a pending check that closes nothing has cleared it
PendingAtDecode ==
    IF delimiter_check_pending
    THEN update_seq_delimiters.delimiter_check_pending
    ELSE delimiter_check_pending

\* C21: when decode_header in the header-expected branch returns a header
\* with tag (FFFE,E00D), not of VR SQ, the reader sets in_sequence, returns
\* ItemEnd and leaves seq_delimiters (nothing is popped), last_header,
\* delimiter_check_pending and hard_break as they are.
ItemEndTagStep ==
    ItemEndTagDecoded =>
        /\ in_sequence'
        /\ ret' = [kind |-> "Some", branch |-> "header", res |-> ItemEnd]
        /\ seq_delimiters' = seq_delimiters
        /\ closed' = closed
        /\ last_header' = last_header
        /\ delimiter_check_pending' = PendingAtDecode
        /\ hard_break' = hard_break

C21_ItemEndTagFrame == [][ItemEndTagStep]_vars

\* inside an item, after a value, ItemEnd was returned for an Item-End tag and
\* the Item entry is still on top of the stack
C21_Witness ==
    /\ ret = [kind |-> "Some", branch |-> "header", res |-> ItemEnd]
    /\ in_sequence
    /\ Len(seq_delimiters) = 2
    /\ Top(seq_delimiters).typ = "Item"
    /\ Len(out) >= 2
    /\ out[Len(out) - 1].res.t = "PrimitiveValue"

\* C22: LazyDataSetReader's depth.  A decoded header of VR SQ with a tag other
\* than (0008,0005) adds 1 to depth and sets in_sequence; a decoded
\* SequenceDelimiter takes 1 from depth, which is at least 1 then, and clears
\* in_sequence; no other call changes depth; and in_sequence implies
\* depth >= 1 in every reachable state.
SequenceHeaderDecoded ==
    /\ parsed'.op = "decode_header"
    /\ parsed'.res.ok
    /\ parsed'.res.val.vr = "SQ"
    /\ parsed'.res.val.tag # TagCharacterSet

SequenceDelimiterDecoded ==
    /\ parsed'.op = "decode_item_header"
    /\ parsed'.res.ok
    /\ parsed'.res.val.k = "SequenceDelimiter"

DepthStep ==
    /\ SequenceHeaderDecoded => (depth' = depth + 1 /\ lazy_in_sequence')
    /\ SequenceDelimiterDecoded =>
          (depth >= 1 /\ depth' = depth - 1 /\ ~lazy_in_sequence')
    /\ (~SequenceHeaderDecoded /\ ~SequenceDelimiterDecoded) => depth' = depth

C22_DepthTracking ==
    /\ [](depth >= 0)
    /\ [](lazy_in_sequence => depth >= 1)
    /\ [][DepthStep]_vars

\* the delimiter of a sequence nested in an item of another sequence was
\* decoded: depth went from 2 to 1
C22_Witness ==
    /\ ret.kind = "Some"
    /\ ~IsErr(ret.res)
    /\ ret.res.header.tag = TagSequenceEnd
    /\ depth = 1
    /\ ~lazy_in_sequence
    /\ Len(out) = 4

\* C23: for a marker of defined length len at position pos, get_data_stream
\* asks the source for the interval from pos to pos + len, len bytes long.
C23_ValueInterval ==
    (stream # NoStream /\ marker.header.len # UndefinedLength) =>
        /\ stream.calls = <<[op |-> "new_at", begin |-> marker.pos,
                             end |-> marker.pos + marker.header.len]>>
        /\ stream.res.ok =>
              /\ stream.res.val.begin = marker.pos
              /\ stream.res.val.end - stream.res.val.begin = marker.header.len

\* C24: LazyDataSetReader never ends gracefully.  None is returned only after
\* a call has returned Some(Err), and an UnexpectedEof of decode_header at
\* header position is returned as Some(Err).
LazyEofStep ==
    (parsed'.op = "decode_header" /\ ~parsed'.res.ok
       /\ parsed'.res.err = "UnexpectedEof") =>
        ret' = [kind |-> "Some", branch |-> "header", res |-> Err("UnexpectedEof")]

C24_NoGracefulEnd ==
    /\ [](ret.kind = "None" => lazy_hard_break /\ ErrCount = 1)
    /\ [][ret'.kind = "None" => (ret.kind = "None" \/ IsErr(ret.res))]_vars
    /\ [][LazyEofStep]_vars

\* markers were returned, the source ended at header position, the call
\* returned Err(UnexpectedEof) and the call after it None
C24_Witness ==
    /\ ret.kind = "None"
    /\ eof
    /\ ~lazy_in_sequence
    /\ Len(out) >= 2
    /\ out[Len(out)].res = Err("UnexpectedEof")
    /\ ~IsErr(out[1].res)

=============================================================================
